---- MODULE Spec2Model ----
(***************************************************************************)
(* Query orchestrators of the procurement agent: the LangGraph retry graph *)
(* (LangGraphMongoDBAgent) and the plain retry loop (GPT5MongoDBAgent),    *)
(* with the validator, executor and summarizer they drive.                 *)
(*                                                                         *)
(* Python values are encoded as follows.  An Optional value is a sequence  *)
(* of length 0 (None) or 1 (the value).  A pipeline is a sequence of       *)
(* stages; a stage is a record [dict, keys, n]: whether it is a mapping,   *)
(* its top-level keys in insertion order and the operand of its $limit.    *)
(* A result value is a record tagged with its Python type.                 *)
(***************************************************************************)
EXTENDS Integers, Sequences, FiniteSets, TLC

(* ------------------------------ bounds --------------------------------- *)
MaxAttempts == 3
MaxResultsBound == 2
MaxRows == 3
MaxPromptRows == 21
MaxApiRequests == 3

(* -------------------------- Python's Optional -------------------------- *)
None == <<>>
Some(v) == <<v>>
TruthyStr(o) == o # None /\ o[1] # ""
TruthyList(o) == o # None /\ Len(o[1]) > 0
OrElse(o, d) == IF TruthyStr(o) THEN o[1] ELSE d

(* ------------------------------ pipelines ------------------------------ *)
Stage(k) == [dict |-> TRUE, keys |-> <<k>>, n |-> 0]
LimitStage(n) == [dict |-> TRUE, keys |-> <<"$limit">>, n |-> n]
TwoKeyStage == [dict |-> TRUE, keys |-> <<"$match", "$sort">>, n |-> 0]

StartsWithDollar(k) ==
    k \in {"$", "$match", "$sort", "$count", "$limit", "$out", "$exceeded time limit"}
HasKey(stage, k) == \E i \in 1..Len(stage.keys) : stage.keys[i] = k
has_limit(pipeline) == \E i \in 1..Len(pipeline) : HasKey(pipeline[i], "$limit")

NotADictStage == [dict |-> FALSE, keys |-> <<>>, n |-> 0]

(* A Python value handed over as a pipeline: a list of stages, or not a list. *)
PyList(stages) == [t |-> "list", stages |-> stages]
PyDict == [t |-> "dict", stages |-> <<>>]

(* Candidate pipelines the generator may emit. *)
GenPipelines ==
    { <<>>,
      <<Stage("$count")>>,
      <<Stage("$match"), LimitStage(MaxRows)>>,
      <<Stage("$match"), Stage("count")>>,
      <<TwoKeyStage>> }

(* ---------------------------- result values ---------------------------- *)
ObjectIdV(h) == [t |-> "ObjectId", v |-> h]
DatetimeV(iso) == [t |-> "datetime", v |-> iso]
FloatV(x) == [t |-> "float", v |-> x]
StrV(s) == [t |-> "str", v |-> s]
NullV == [t |-> "NoneType", v |-> ""]
IntV(x) == [t |-> "int", v |-> x]
Decimal128V(x) == [t |-> "Decimal128", v |-> x]
Row(key, val) == [t |-> "dict", key |-> key, val |-> val]
ListV(items) == [t |-> "list", items |-> items]

EngineRows ==
    << Row("total", FloatV("346000.0")),
       Row("_id", ObjectIdV("65a1")),
       Row("created", DatetimeV("2014-01-01T00:00:00")),
       Row("ratio", FloatV("nan")) >>

(* serialize that leaves the items of a list as they are *)
RECURSIVE serialize_flat_lists(_)
serialize_flat_lists(value) ==
    IF value.t = "ObjectId" THEN StrV(value.v)
    ELSE IF value.t = "datetime" THEN StrV(value.v)
    ELSE IF value.t = "float" THEN
        IF value.v = "nan" THEN NullV
        ELSE IF value.v = "inf" THEN StrV("Infinity")
        ELSE IF value.v = "-inf" THEN StrV("-Infinity")
        ELSE value
    ELSE IF value.t = "dict" THEN Row(value.key, serialize_flat_lists(value.val))
    ELSE value

(* serialize that turns an infinite float into NaN *)
RECURSIVE serialize_inf_as_nan(_)
serialize_inf_as_nan(value) ==
    IF value.t = "ObjectId" THEN StrV(value.v)
    ELSE IF value.t = "datetime" THEN StrV(value.v)
    ELSE IF value.t = "float" THEN
        IF value.v = "nan" THEN NullV
        ELSE IF value.v = "inf" THEN FloatV("nan")
        ELSE IF value.v = "-inf" THEN FloatV("nan")
        ELSE value
    ELSE IF value.t = "dict" THEN Row(value.key, serialize_inf_as_nan(value.val))
    ELSE IF value.t = "list" THEN
        ListV([i \in 1..Len(value.items) |-> serialize_inf_as_nan(value.items[i])])
    ELSE value

RECURSIVE serialize(_)
serialize(value) ==
    IF value.t = "ObjectId" THEN StrV(value.v)
    ELSE IF value.t = "datetime" THEN StrV(value.v)
    ELSE IF value.t = "float" THEN
        IF value.v = "nan" THEN NullV
        ELSE IF value.v = "inf" THEN StrV("Infinity")
        ELSE IF value.v = "-inf" THEN StrV("-Infinity")
        ELSE value
    ELSE IF value.t = "dict" THEN Row(value.key, serialize(value.val))
    ELSE IF value.t = "list" THEN
        ListV([i \in 1..Len(value.items) |-> serialize(value.items[i])])
    ELSE value

serialize_results(results) ==
    [i \in 1..Len(results) |-> serialize(results[i])]

(* ------------------------- completion service -------------------------- *)
(* Identifier of the response to the generation or summarization call of   *)
(* attempt n (opaque, fresh per call) and the text of a failure in         *)
(* attempt n.                                                              *)
RespId(call, n) == "resp_" \o call \o "_" \o ToString(n)
ErrText(base, n) == base \o " #" \o ToString(n)
CallerId == "resp_caller"
FallbackAnswer == "Results retrieved successfully"
FallbackError == "Failed to generate MongoDB pipeline"

(* PipelineGenerator.generate: what the call of attempt n may return. *)
GenOutcomes(n) ==
    { [pipeline |-> Some(p), response_id |-> Some(RespId("gen", n)), error |-> None] :
        p \in GenPipelines }
    \cup
    { [pipeline |-> None, response_id |-> rid,
       error |-> Some(ErrText("Failed to parse pipeline JSON", n))] :
        rid \in {None, Some(RespId("gen", n))} }

(* ------------------------------ validator ------------------------------ *)
(* Outcomes of collection.aggregate in the dry-run.  tl says whether the   *)
(* lower-cased message contains "exceeded time limit"; timeout says        *)
(* whether the engine aborted the run for exceeding maxTimeMS.             *)
DryOutcomes(n) ==
    { [kind |-> "ok", code |-> 0, tl |-> FALSE, timeout |-> FALSE, text |-> ""],
      [kind |-> "OperationFailure", code |-> 40324, tl |-> FALSE, timeout |-> FALSE,
       text |-> ErrText("Unrecognized pipeline stage name", n)],
      [kind |-> "OperationFailure", code |-> 50, tl |-> FALSE, timeout |-> TRUE,
       text |-> ErrText("MaxTimeMSExpired", n)],
      [kind |-> "OperationFailure", code |-> 262, tl |-> TRUE, timeout |-> TRUE,
       text |-> ErrText("Executor error: operation exceeded time limit", n)],
      [kind |-> "ConnectionFailure", code |-> 0, tl |-> FALSE, timeout |-> FALSE,
       text |-> ErrText("connection refused", n)] }

(* The engine's message for a stage it does not know names the stage. *)
EchoOutcome ==
    [kind |-> "OperationFailure", code |-> 40324, tl |-> TRUE, timeout |-> FALSE,
     text |-> "Unrecognized pipeline stage name: '$exceeded time limit'"]

(* What the engine may reply to an aggregate of the pipeline sent: an      *)
(* unknown stage name is always refused, and so is a $out stage that is    *)
(* not the last stage.                                                     *)
EngineDryReplies(sent, n) ==
    IF \E i \in 1..Len(sent) : HasKey(sent[i], "$exceeded time limit")
        THEN {EchoOutcome} \cup {d \in DryOutcomes(n) : d.kind = "ConnectionFailure"}
    ELSE IF \E i \in 1..(Len(sent) - 1) : HasKey(sent[i], "$out")
        THEN {d \in DryOutcomes(n) : d.kind # "ok"}
    ELSE DryOutcomes(n)

(* An aggregate whose last stage is $out writes a collection when it completes. *)
EngineWrites(call) ==
    /\ call.reply = "ok"
    /\ Len(call.pipeline) > 0
    /\ HasKey(call.pipeline[Len(call.pipeline)], "$out")

(* structural_error that looks at one stage only *)
structural_error_first_only(pipeline, i) ==
    IF i > Len(pipeline) THEN None
    ELSE IF ~pipeline[i].dict
        THEN Some("Stage " \o ToString(i - 1) \o " must be a dictionary")
    ELSE IF Len(pipeline[i].keys) # 1
        THEN Some("Stage " \o ToString(i - 1) \o " must have exactly one operator")
    ELSE IF ~StartsWithDollar(pipeline[i].keys[1])
        THEN Some("Stage " \o ToString(i - 1) \o ": '" \o pipeline[i].keys[1]
                  \o "' is not a valid aggregation operator (must start with $)")
    ELSE None

RECURSIVE structural_error(_, _)
structural_error(pipeline, i) ==
    IF i > Len(pipeline) THEN None
    ELSE IF ~pipeline[i].dict
        THEN Some("Stage " \o ToString(i - 1) \o " must be a dictionary")
    ELSE IF Len(pipeline[i].keys) # 1
        THEN Some("Stage " \o ToString(i - 1) \o " must have exactly one operator")
    ELSE IF ~StartsWithDollar(pipeline[i].keys[1])
        THEN Some("Stage " \o ToString(i - 1) \o ": '" \o pipeline[i].keys[1]
                  \o "' is not a valid aggregation operator (must start with $)")
    ELSE structural_error(pipeline, i + 1)

(* the dry-run pipeline without the cap *)
test_pipeline_uncapped(pipeline) == pipeline

test_pipeline(pipeline) ==
    IF has_limit(pipeline) THEN pipeline ELSE Append(pipeline, LimitStage(1))

(* the dry-run list built on the caller's list itself *)
dry_run_lists_aliased(pipeline) ==
    [pipeline |-> test_pipeline(pipeline), test_pipeline |-> test_pipeline(pipeline)]

(* The caller's list and the dry-run list once the cap has been appended:  *)
(* the dry-run list is a copy, so the append leaves the caller's list.     *)
dry_run_lists(pipeline) ==
    [pipeline |-> pipeline, test_pipeline |-> test_pipeline(pipeline)]

(* The aggregate call of the dry-run, with the engine's reply to it. *)
DryRunCall(pipeline, dry) ==
    [pipeline |-> test_pipeline(pipeline), maxTimeMS |-> 1000, allowDiskUse |-> "False",
     reply |-> dry.kind, timeout |-> dry.timeout]

(* validate_aggregation_pipeline that recognises a time-limit failure by code 50 only *)
validate_aggregation_pipeline_code_only(pipeline, dry) ==
    IF Len(pipeline) = 0
        THEN [is_valid |-> FALSE, error |-> Some("Pipeline cannot be empty"), engine |-> <<>>, pipeline |-> pipeline,
              raised |-> FALSE]
    ELSE IF structural_error(pipeline, 1) # None
        THEN [is_valid |-> FALSE, error |-> structural_error(pipeline, 1), engine |-> <<>>, pipeline |-> pipeline,
              raised |-> FALSE]
    ELSE IF dry.kind = "ok"
        THEN [is_valid |-> TRUE, error |-> None, engine |-> <<DryRunCall(pipeline, dry)>>,
                      pipeline |-> dry_run_lists(pipeline).pipeline,
                      raised |-> FALSE]
    ELSE IF dry.kind = "OperationFailure"
        THEN IF dry.code = 50
                THEN [is_valid |-> TRUE, error |-> None, engine |-> <<DryRunCall(pipeline, dry)>>,
                      pipeline |-> dry_run_lists(pipeline).pipeline,
                      raised |-> FALSE]
                ELSE [is_valid |-> FALSE, error |-> Some("Invalid pipeline: " \o dry.text),
                      engine |-> <<DryRunCall(pipeline, dry)>>,
                      pipeline |-> dry_run_lists(pipeline).pipeline,
                      raised |-> FALSE]
    ELSE [is_valid |-> FALSE, error |-> Some("Validation error: " \o dry.text),
          engine |-> <<DryRunCall(pipeline, dry)>>,
                      pipeline |-> dry_run_lists(pipeline).pipeline,
                      raised |-> FALSE]

validate_aggregation_pipeline(pipeline, dry) ==
    IF Len(pipeline) = 0
        THEN [is_valid |-> FALSE, error |-> Some("Pipeline cannot be empty"), engine |-> <<>>, pipeline |-> pipeline,
              raised |-> FALSE]
    ELSE IF structural_error(pipeline, 1) # None
        THEN [is_valid |-> FALSE, error |-> structural_error(pipeline, 1), engine |-> <<>>, pipeline |-> pipeline,
              raised |-> FALSE]
    ELSE IF dry.kind = "ok"
        THEN [is_valid |-> TRUE, error |-> None, engine |-> <<DryRunCall(pipeline, dry)>>,
                      pipeline |-> dry_run_lists(pipeline).pipeline,
                      raised |-> FALSE]
    ELSE IF dry.kind = "OperationFailure"
        THEN IF dry.code = 50 \/ dry.tl
                THEN [is_valid |-> TRUE, error |-> None, engine |-> <<DryRunCall(pipeline, dry)>>,
                      pipeline |-> dry_run_lists(pipeline).pipeline,
                      raised |-> FALSE]
                ELSE [is_valid |-> FALSE, error |-> Some("Invalid pipeline: " \o dry.text),
                      engine |-> <<DryRunCall(pipeline, dry)>>,
                      pipeline |-> dry_run_lists(pipeline).pipeline,
                      raised |-> FALSE]
    ELSE [is_valid |-> FALSE, error |-> Some("Validation error: " \o dry.text),
          engine |-> <<DryRunCall(pipeline, dry)>>,
                      pipeline |-> dry_run_lists(pipeline).pipeline,
                      raised |-> FALSE]

(* validate_aggregation_pipeline on any value: the isinstance test comes first. *)
validate(value, dry) ==
    IF value.t # "list"
        THEN [is_valid |-> FALSE, error |-> Some("Pipeline must be a list of stages"),
              engine |-> <<>>, pipeline |-> value.stages, raised |-> FALSE]
    ELSE validate_aggregation_pipeline(value.stages, dry)

(* ------------------------------ executor ------------------------------- *)
ExecOutcomes(n) ==
    { [kind |-> "ok", nrows |-> k, text |-> ""] : k \in 0..MaxRows }
    \cup
    { [kind |-> "PyMongoError", nrows |-> 0, text |-> ErrText("operation failed", n)],
      [kind |-> "Exception", nrows |-> 0, text |-> ErrText("unexpected", n)] }

(* capped that appends the cap whatever the pipeline has *)
capped_always(pipeline, limit) ==
    Append(pipeline, LimitStage(limit))

capped(pipeline, limit) ==
    IF has_limit(pipeline) THEN pipeline ELSE Append(pipeline, LimitStage(limit))

(* The engine returns no more rows than a trailing $limit stage allows. *)
EngineMayReturn(pipeline, nrows) ==
    \/ Len(pipeline) = 0
    \/ ~HasKey(pipeline[Len(pipeline)], "$limit")
    \/ nrows <= pipeline[Len(pipeline)].n

ExecCall(pipeline, limit, exe) ==
    [pipeline |-> capped(pipeline, limit), maxTimeMS |-> 30000, allowDiskUse |-> "default",
     reply |-> exe.kind, timeout |-> FALSE]

(* execute_aggregation without the handler for unexpected exceptions *)
execute_aggregation_uncaught(pipeline, max_results, exe) ==
    IF exe.kind = "ok"
        THEN [success |-> TRUE, error |-> None,
              result |-> Some(serialize_results(SubSeq(EngineRows, 1, exe.nrows))),
              pipeline |-> capped(pipeline, max_results),
              engine |-> <<ExecCall(pipeline, max_results, exe)>>,
              raised |-> FALSE]
    ELSE IF exe.kind = "PyMongoError"
        THEN [success |-> FALSE, error |-> Some("Query execution failed: " \o exe.text),
              result |-> None,
              pipeline |-> capped(pipeline, max_results),
              engine |-> <<ExecCall(pipeline, max_results, exe)>>,
              raised |-> FALSE]
    ELSE [success |-> FALSE, error |-> Some("Unexpected error during execution: " \o exe.text),
          result |-> None,
          pipeline |-> capped(pipeline, max_results),
          engine |-> <<ExecCall(pipeline, max_results, exe)>>,
              raised |-> TRUE]

(* pipeline is the list after the call: the cap is appended in place. *)
execute_aggregation(pipeline, max_results, exe) ==
    IF exe.kind = "ok"
        THEN [success |-> TRUE, error |-> None,
              result |-> Some(serialize_results(SubSeq(EngineRows, 1, exe.nrows))),
              pipeline |-> capped(pipeline, max_results),
              engine |-> <<ExecCall(pipeline, max_results, exe)>>,
              raised |-> FALSE]
    ELSE IF exe.kind = "PyMongoError"
        THEN [success |-> FALSE, error |-> Some("Query execution failed: " \o exe.text),
              result |-> None,
              pipeline |-> capped(pipeline, max_results),
              engine |-> <<ExecCall(pipeline, max_results, exe)>>,
              raised |-> FALSE]
    ELSE [success |-> FALSE, error |-> Some("Unexpected error during execution: " \o exe.text),
          result |-> None,
          pipeline |-> capped(pipeline, max_results),
          engine |-> <<ExecCall(pipeline, max_results, exe)>>,
              raised |-> FALSE]

(* GPT5MongoDBAgent._execute_pipeline *)
execute_pipeline(pipeline, max_results, exe) ==
    execute_aggregation(pipeline, max_results, exe)

(* ----------------------------- summarizer ------------------------------ *)
SumOutcomes(n) ==
    { [kind |-> "ok", output_text |-> Some("There are 346000 records"), id |-> RespId("sum", n)],
      [kind |-> "ok", output_text |-> Some(""), id |-> RespId("sum", n)],
      [kind |-> "ok", output_text |-> None, id |-> RespId("sum", n)],
      [kind |-> "raise", output_text |-> None, id |-> RespId("sum", n)] }

max_results_for_prompt == 20

(* the completion request that states the number of rows shown as the total *)
summarize_request_shown_as_total(results, previous_response_id) ==
    LET limited_results ==
            SubSeq(results, 1, IF Len(results) < max_results_for_prompt
                                  THEN Len(results) ELSE max_results_for_prompt)
    IN  [limited_results |-> limited_results,
         shown |-> Len(limited_results),
         total |-> Len(limited_results),
         previous_response_id |->
             IF TruthyStr(previous_response_id) THEN previous_response_id ELSE None]

(* The completion request AnswerSummarizer.summarize builds: the rows it  *)
(* embeds, the two counts its prompt states, and the identifier it chains *)
(* to.                                                                    *)
summarize_request(results, previous_response_id) ==
    LET limited_results ==
            SubSeq(results, 1, IF Len(results) < max_results_for_prompt
                                  THEN Len(results) ELSE max_results_for_prompt)
    IN  [limited_results |-> limited_results,
         shown |-> Len(limited_results),
         total |-> Len(results),
         previous_response_id |->
             IF TruthyStr(previous_response_id) THEN previous_response_id ELSE None]

(* AnswerSummarizer.summarize, when responses.create returns. *)
summarize(out) ==
    [answer |-> OrElse(out.output_text, FallbackAnswer), response_id |-> Some(out.id)]

(* ============================ orchestrators ============================ *)
VARIABLES
    req,      \* the invocation: orchestrator, max_attempts, max_results, previous_response_id
    pc,       \* position of the invocation
    state,    \* AgentState of the graph orchestrator
    loc,      \* local variables of the loop orchestrator
    result,   \* the dictionary returned by query, once returned
    raised,   \* an exception left query
    calls,    \* calls of the current attempt to generator, validator, executor, summarizer
    prev,     \* what the collaborators returned in the attempt before
    ngen,     \* number of generator calls made so far
    engine,   \* aggregate calls the query engine received in the current attempt
    unit,     \* a direct call of validate, execute_aggregation, _serialize_results or summarize
    api,      \* the API layer: agent singleton, conversation states, requests in flight
    twin      \* the loop orchestrator run side by side with the graph orchestrator

vars == <<req, pc, state, loc, result, raised, calls, prev, ngen, engine, unit, api, twin>>

(* The returns of a finished attempt: the error of its last call and the   *)
(* identifier of its generation call.  Before the first attempt: none.     *)
NoAttempt == [error |-> None, response_id |-> None]
Returned(cs) ==
    IF cs = <<>> THEN NoAttempt
    ELSE [error |-> cs[Len(cs)].error, response_id |-> cs[1].response_id]

GenCall(previous_error, previous_response_id, g) ==
    [op |-> "generate", previous_error |-> previous_error,
     previous_response_id |-> previous_response_id,
     pipeline |-> g.pipeline, response_id |-> g.response_id, error |-> g.error]
ValCall(pipeline, v) ==
    [op |-> "validate", pipeline |-> pipeline, pipeline_after |-> v.pipeline,
     is_valid |-> v.is_valid, error |-> v.error, raised |-> v.raised]
ExeCall(pipeline, e) ==
    [op |-> "execute", pipeline |-> pipeline, executed |-> e.pipeline,
     success |-> e.success, result |-> e.result, error |-> e.error, raised |-> e.raised]
SumCall(pipeline, results, previous_response_id, out) ==
    [op |-> "summarize", pipeline |-> pipeline, results |-> results,
     previous_response_id |-> previous_response_id, raised |-> out.kind = "raise",
     error |-> None,
     answer |-> IF out.kind = "raise" THEN None ELSE Some(summarize(out).answer),
     response_id |-> IF out.kind = "raise" THEN None ELSE summarize(out).response_id]

Success(answer, pipeline, results, response_id) ==
    [success |-> TRUE, answer |-> Some(answer), pipeline |-> pipeline,
     results |-> Some(results), result_count |-> Some(Len(results)),
     response_id |-> response_id, error |-> None]
Failure(pipeline, results, error) ==
    [success |-> FALSE, answer |-> None, pipeline |-> pipeline,
     results |-> results, result_count |-> None,
     response_id |-> None, error |-> Some(error)]

(* ------------------------- LangGraphMongoDBAgent ----------------------- *)
InitialState(r) ==
    [attempt |-> 0, max_attempts |-> r.max_attempts,
     previous_response_id |-> r.previous_response_id,
     pipeline |-> None, pipeline_response_id |-> None, previous_error |-> None,
     results |-> None, answer |-> None, error |-> None, response_id |-> None]

(* generate_pipeline_node that keeps the pipeline identifier it had *)
generate_pipeline_node_stale_id(s, g) ==
    [s EXCEPT !.attempt = s.attempt + 1,
              !.pipeline = g.pipeline,
              !.previous_response_id = g.response_id,
              !.error = g.error,
              !.previous_error = g.error]

generate_pipeline_node(s, g) ==
    [s EXCEPT !.attempt = s.attempt + 1,
              !.pipeline = g.pipeline,
              !.pipeline_response_id = g.response_id,
              !.previous_response_id = g.response_id,
              !.error = g.error,
              !.previous_error = g.error]

(* after_generate with the attempt bound off by one *)
after_generate_off_by_one(s) ==
    IF TruthyList(s.pipeline) THEN "run"
    ELSE IF s.attempt > s.max_attempts THEN "stop"
    ELSE "retry"

after_generate(s) ==
    IF TruthyList(s.pipeline) THEN "run"
    ELSE IF s.attempt >= s.max_attempts THEN "stop"
    ELSE "retry"

(* run_pipeline_node that executes whatever the validator said *)
run_pipeline_node_unchecked(s, dry, exe, max_results) ==
    LET pipeline == s.pipeline[1]
        v == validate_aggregation_pipeline(pipeline, dry)
        e == execute_pipeline(v.pipeline, max_results, exe)
    IN  IF ~TruthyList(s.pipeline)
            THEN [state |-> s, calls |-> <<>>, engine |-> <<>>]
        ELSE IF ~e.success
            THEN [state |-> [s EXCEPT !.error = e.error, !.previous_error = e.error,
                                      !.pipeline = None],
                  calls |-> <<ValCall(pipeline, v), ExeCall(v.pipeline, e)>>,
                  engine |-> v.engine \o e.engine]
        ELSE [state |-> [s EXCEPT !.pipeline = Some(e.pipeline), !.results = e.result,
                                  !.error = None, !.previous_error = None],
              calls |-> <<ValCall(pipeline, v), ExeCall(v.pipeline, e)>>,
              engine |-> v.engine \o e.engine]

(* The node's new state, with the collaborator calls it makes. *)
run_pipeline_node(s, dry, exe, max_results) ==
    LET pipeline == s.pipeline[1]
        v == validate_aggregation_pipeline(pipeline, dry)
        e == execute_pipeline(v.pipeline, max_results, exe)
    IN  IF ~TruthyList(s.pipeline)
            THEN [state |-> s, calls |-> <<>>, engine |-> <<>>]
        ELSE IF ~v.is_valid
            THEN [state |-> [s EXCEPT !.error = v.error, !.previous_error = v.error,
                                      !.pipeline = None],
                  calls |-> <<ValCall(pipeline, v)>>, engine |-> v.engine]
        ELSE IF ~e.success
            THEN [state |-> [s EXCEPT !.error = e.error, !.previous_error = e.error,
                                      !.pipeline = None],
                  calls |-> <<ValCall(pipeline, v), ExeCall(v.pipeline, e)>>,
                  engine |-> v.engine \o e.engine]
        ELSE [state |-> [s EXCEPT !.pipeline = Some(e.pipeline), !.results = e.result,
                                  !.error = None, !.previous_error = None],
              calls |-> <<ValCall(pipeline, v), ExeCall(v.pipeline, e)>>,
              engine |-> v.engine \o e.engine]

(* after_run that goes on to the summary whatever the run gave *)
after_run_always_summarize(s) == "summarize"

(* after_run that retries on every error, whatever the attempt count *)
after_run_no_stop(s) ==
    IF TruthyStr(s.error) THEN "retry" ELSE "summarize"

(* after_run that tests the attempt bound before the error *)
after_run_stop_first(s) ==
    IF s.attempt >= s.max_attempts THEN "stop"
    ELSE IF TruthyStr(s.error) THEN "retry"
    ELSE "summarize"

after_run(s) ==
    IF TruthyStr(s.error)
        THEN IF s.attempt >= s.max_attempts THEN "stop" ELSE "retry"
    ELSE "summarize"

OrEmpty(o) == IF TruthyList(o) THEN o[1] ELSE <<>>

summarize_node(s, out) ==
    [s EXCEPT !.answer = Some(summarize(out).answer),
              !.response_id = summarize(out).response_id,
              !.error = None]

Edge(label) ==
    CASE label = "run" -> "run_pipeline"
      [] label = "retry" -> "generate_pipeline"
      [] label = "summarize" -> "summarize"
      [] label = "stop" -> "END"

(* graph_result that reports the generic text instead of the state's error *)
graph_result_generic_error(final_state) ==
    IF TruthyStr(final_state.answer)
        THEN Success(final_state.answer[1], final_state.pipeline,
                     OrEmpty(final_state.results), final_state.response_id)
    ELSE Failure(final_state.pipeline, final_state.results, FallbackError)

(* graph_result that hands back the generation call's identifier on failure *)
graph_result_failure_keeps_id(final_state) ==
    IF TruthyStr(final_state.answer)
        THEN Success(final_state.answer[1], final_state.pipeline,
                     OrEmpty(final_state.results), final_state.response_id)
    ELSE [Failure(final_state.pipeline, final_state.results,
                  OrElse(final_state.error, FallbackError))
            EXCEPT !.response_id = final_state.pipeline_response_id]

graph_result(final_state) ==
    IF TruthyStr(final_state.answer)
        THEN Success(final_state.answer[1], final_state.pipeline,
                     OrEmpty(final_state.results), final_state.response_id)
    ELSE Failure(final_state.pipeline, final_state.results,
                 OrElse(final_state.error, FallbackError))

G_generate ==
    /\ req.impl = "graph" /\ pc = "generate_pipeline"
    /\ state.attempt <= req.max_attempts    \* cap of the counter; the edges keep it below
    /\ \E g \in GenOutcomes(ngen + 1) :
        /\ state' = generate_pipeline_node(state, g)
        /\ calls' = <<GenCall(state.previous_error, state.previous_response_id, g)>>
        /\ pc' = Edge(after_generate(state'))
    /\ prev' = Returned(calls)
    /\ ngen' = ngen + 1
    /\ engine' = <<>>
    /\ UNCHANGED <<api, twin, unit, req, loc, result, raised>>

G_run ==
    /\ req.impl = "graph" /\ pc = "run_pipeline"
    /\ \E dry \in EngineDryReplies(test_pipeline(state.pipeline[1]), ngen),
          exe \in ExecOutcomes(ngen) :
        LET r == run_pipeline_node(state, dry, exe, req.max_results)
        IN  /\ exe.kind = "ok" => EngineMayReturn(capped(state.pipeline[1], req.max_results),
                                                  exe.nrows)
            /\ state' = r.state
            /\ calls' = calls \o r.calls
            /\ engine' = engine \o r.engine
            /\ pc' = Edge(after_run(state'))
    /\ UNCHANGED <<api, twin, unit, req, loc, result, raised, prev, ngen>>

G_summarize ==
    /\ req.impl = "graph" /\ pc = "summarize"
    /\ \E out \in SumOutcomes(ngen) :
        /\ calls' = Append(calls, SumCall(OrEmpty(state.pipeline), OrEmpty(state.results),
                                          state.pipeline_response_id, out))
        /\ IF out.kind = "raise"
              THEN /\ raised' = TRUE
                   /\ pc' = "raised"
                   /\ UNCHANGED state
              ELSE /\ state' = summarize_node(state, out)
                   /\ pc' = "END"
                   /\ UNCHANGED raised
    /\ UNCHANGED <<api, twin, unit, req, loc, result, prev, ngen, engine>>

G_return ==
    /\ req.impl = "graph" /\ pc = "END"
    /\ result' = Some(graph_result(state))
    /\ pc' = "returned"
    /\ UNCHANGED <<api, twin, unit, req, state, loc, raised, calls, prev, ngen, engine>>

(* --------------------------- GPT5MongoDBAgent -------------------------- *)
InitialLocals(r) ==
    [attempt |-> 0, previous_error |-> None, last_error |-> None,
     prev_response_id |-> r.previous_response_id,
     pipeline |-> None, pipeline_response_id |-> None, result |-> None]

(* loop_generate that keeps chaining to the identifier it started with *)
loop_generate_keeps_id(l, g) ==
    IF ~TruthyList(g.pipeline)
        THEN [l EXCEPT !.attempt = l.attempt + 1, !.pipeline = g.pipeline,
                       !.pipeline_response_id = g.response_id,
                       !.previous_error = g.error, !.last_error = g.error]
    ELSE [l EXCEPT !.attempt = l.attempt + 1, !.pipeline = g.pipeline,
                   !.pipeline_response_id = g.response_id]

loop_generate(l, g) ==
    IF ~TruthyList(g.pipeline)
        THEN [l EXCEPT !.attempt = l.attempt + 1, !.pipeline = g.pipeline,
                       !.pipeline_response_id = g.response_id,
                       !.prev_response_id = g.response_id,
                       !.previous_error = g.error, !.last_error = g.error]
    ELSE [l EXCEPT !.attempt = l.attempt + 1, !.pipeline = g.pipeline,
                   !.pipeline_response_id = g.response_id,
                   !.prev_response_id = g.response_id]

(* loop_validate that records the error only for the final report *)
loop_validate_drops_error(l, v) ==
    IF ~v.is_valid
        THEN [l EXCEPT !.pipeline = Some(v.pipeline), !.last_error = v.error]
    ELSE [l EXCEPT !.pipeline = Some(v.pipeline)]

loop_validate(l, v) ==
    IF ~v.is_valid
        THEN [l EXCEPT !.pipeline = Some(v.pipeline),
                       !.previous_error = v.error, !.last_error = v.error]
    ELSE [l EXCEPT !.pipeline = Some(v.pipeline)]

(* loop_execute whose pipeline stays as generated *)
loop_execute_keeps_generated(l, e) ==
    IF ~e.success \/ e.result = None
        THEN [l EXCEPT !.previous_error = e.error, !.last_error = e.error]
    ELSE [l EXCEPT !.result = e.result]

loop_execute(l, e) ==
    IF ~e.success \/ e.result = None
        THEN [l EXCEPT !.pipeline = Some(e.pipeline),
                       !.previous_error = e.error, !.last_error = e.error]
    ELSE [l EXCEPT !.pipeline = Some(e.pipeline), !.result = e.result]

loop_exhausted(l) ==
    Failure(None, None, OrElse(l.last_error, FallbackError))

L_generate ==
    /\ req.impl = "loop" /\ pc = "for"
    /\ loc.attempt < req.max_attempts
    /\ \E g \in GenOutcomes(ngen + 1) :
        /\ loc' = loop_generate(loc, g)
        /\ calls' = <<GenCall(loc.previous_error, loc.prev_response_id, g)>>
        /\ pc' = IF TruthyList(g.pipeline) THEN "validate" ELSE "for"
    /\ prev' = Returned(calls)
    /\ ngen' = ngen + 1
    /\ engine' = <<>>
    /\ UNCHANGED <<api, twin, unit, req, state, result, raised>>

L_validate ==
    /\ req.impl = "loop" /\ pc = "validate"
    /\ \E dry \in EngineDryReplies(test_pipeline(loc.pipeline[1]), ngen) :
        LET v == validate_aggregation_pipeline(loc.pipeline[1], dry)
        IN  /\ loc' = loop_validate(loc, v)
            /\ calls' = Append(calls, ValCall(loc.pipeline[1], v))
            /\ engine' = engine \o v.engine
            /\ pc' = IF v.is_valid THEN "execute" ELSE "for"
    /\ UNCHANGED <<api, twin, unit, req, state, result, raised, prev, ngen>>

L_execute ==
    /\ req.impl = "loop" /\ pc = "execute"
    /\ \E exe \in ExecOutcomes(ngen) :
        LET e == execute_pipeline(loc.pipeline[1], req.max_results, exe)
        IN  /\ exe.kind = "ok" => EngineMayReturn(e.pipeline, exe.nrows)
            /\ loc' = loop_execute(loc, e)
            /\ calls' = Append(calls, ExeCall(loc.pipeline[1], e))
            /\ engine' = engine \o e.engine
            /\ pc' = IF e.success /\ e.result # None THEN "summarize" ELSE "for"
    /\ UNCHANGED <<api, twin, unit, req, state, result, raised, prev, ngen>>

L_summarize ==
    /\ req.impl = "loop" /\ pc = "summarize"
    /\ \E out \in SumOutcomes(ngen) :
        /\ calls' = Append(calls, SumCall(loc.pipeline[1], loc.result[1],
                                          loc.pipeline_response_id, out))
        /\ result' = IF out.kind = "raise"
                        THEN Some(Failure(None, None, "GPT-5 Agent error: completion service error"))
                        ELSE Some(Success(summarize(out).answer, loc.pipeline, loc.result[1],
                                          summarize(out).response_id))
    /\ pc' = "returned"
    /\ UNCHANGED <<api, twin, unit, req, state, loc, raised, prev, ngen, engine>>

L_exhausted ==
    /\ req.impl = "loop" /\ pc = "for"
    /\ loc.attempt >= req.max_attempts
    /\ result' = Some(loop_exhausted(loc))
    /\ pc' = "returned"
    /\ UNCHANGED <<api, twin, unit, req, state, loc, raised, calls, prev, ngen, engine>>

(* ---------------------------- specification ---------------------------- *)
NoUnit == [fn |-> "none"]
NoApi == [layer |-> "none"]
NoTwin == [pc |-> "none"]

Requests ==
    [impl : {"graph", "loop"}, max_attempts : 1..MaxAttempts,
     max_results : 1..MaxResultsBound, previous_response_id : {None, Some(CallerId)}]

Init ==
    /\ req \in Requests
    /\ pc = IF req.impl = "graph" THEN "generate_pipeline" ELSE "for"
    /\ state = InitialState(req)
    /\ loc = InitialLocals(req)
    /\ result = None
    /\ raised = FALSE
    /\ calls = <<>>
    /\ prev = NoAttempt
    /\ ngen = 0
    /\ engine = <<>>
    /\ unit = NoUnit
    /\ api = NoApi
    /\ twin = NoTwin

Next ==
    \/ G_generate \/ G_run \/ G_summarize \/ G_return
    \/ L_generate \/ L_validate \/ L_execute \/ L_summarize \/ L_exhausted

Spec == Init /\ [][Next]_vars

(* Every outbound call returns, so the invocation always takes its next step. *)
FairSpec == Spec /\ WF_vars(Next)

(* ------------------- collaborators called on their own ----------------- *)
(* Values handed to validate: pipelines of every structural kind, one with *)
(* a writing stage, one with a stage the engine does not know.             *)
UnitPipelines ==
    GenPipelines \cup
    { <<NotADictStage, Stage("count")>>,
      <<Stage("$match"), TwoKeyStage, NotADictStage>>,
      <<LimitStage(1), Stage("$match")>>,
      <<Stage("$out")>>,
      <<Stage("$match"), LimitStage(1), Stage("$out")>>,
      <<Stage("$exceeded time limit")>> }

UnitValues == {PyList(p) : p \in UnitPipelines} \cup {PyDict}

(* Documents as the engine returns them, with nested mappings and lists. *)
UnitRows ==
    { <<>>,
      SubSeq(EngineRows, 1, MaxRows),
      << Row("doc", Row("created", DatetimeV("2014-01-01T00:00:00"))),
         Row("n", IntV("7")) >>,
      << Row("vals", ListV(<< FloatV("nan"), FloatV("inf"), FloatV("-inf"),
                              Row("id", ObjectIdV("65a2")) >>)) >>,
      << Row("deep", ListV(<< ListV(<< DatetimeV("2014-01-02T00:00:00"),
                                       StrV("ok"), NullV >>) >>)) >>,
      << Row("amount", Decimal128V("1234.5600")), Row("n", IntV("7")) >> }

UnitInputs ==
    [fn : {"input"}, value : UnitValues, max_results : 1..MaxResultsBound, rows : UnitRows]

U_validate ==
    /\ unit.fn = "input"
    /\ \E dry \in EngineDryReplies(test_pipeline(unit.value.stages), 1) :
        unit' = [fn |-> "validate", value |-> unit.value, dry |-> dry,
                 out |-> validate(unit.value, dry)]
    /\ UNCHANGED <<api, twin, req, pc, state, loc, result, raised, calls, prev, ngen, engine>>

(* The executor is handed pipelines that passed the structural checks. *)
U_execute ==
    /\ unit.fn = "input"
    /\ unit.value.t = "list"
    /\ Len(unit.value.stages) > 0
    /\ structural_error(unit.value.stages, 1) = None
    /\ \E exe \in ExecOutcomes(1) :
        /\ exe.kind = "ok" =>
              EngineMayReturn(capped(unit.value.stages, unit.max_results), exe.nrows)
        /\ unit' = [fn |-> "execute", times |-> 1, pipeline |-> unit.value.stages,
                    max_results |-> unit.max_results, exe |-> exe.kind,
                    out |-> execute_aggregation(unit.value.stages, unit.max_results, exe)]
    /\ UNCHANGED <<api, twin, req, pc, state, loc, result, raised, calls, prev, ngen, engine>>

(* The same list, as the first call left it, is executed once more. *)
U_execute_again ==
    /\ unit.fn = "execute"
    /\ unit.times = 1
    /\ \E exe \in ExecOutcomes(1) :
        /\ exe.kind = "ok" =>
              EngineMayReturn(capped(unit.out.pipeline, unit.max_results), exe.nrows)
        /\ unit' = [fn |-> "execute", times |-> 2, pipeline |-> unit.out.pipeline,
                    max_results |-> unit.max_results, exe |-> exe.kind,
                    out |-> execute_aggregation(unit.out.pipeline, unit.max_results, exe)]
    /\ UNCHANGED <<api, twin, req, pc, state, loc, result, raised, calls, prev, ngen, engine>>

U_serialize ==
    /\ unit.fn = "input"
    /\ unit' = [fn |-> "serialize", times |-> 1, rows |-> unit.rows,
                out |-> serialize_results(unit.rows)]
    /\ UNCHANGED <<api, twin, req, pc, state, loc, result, raised, calls, prev, ngen, engine>>

(* The serializer is applied to the rows it returned. *)
U_serialize_again ==
    /\ unit.fn = "serialize"
    /\ unit.times = 1
    /\ unit' = [fn |-> "serialize", times |-> 2, rows |-> unit.out,
                out |-> serialize_results(unit.out)]
    /\ UNCHANGED <<api, twin, req, pc, state, loc, result, raised, calls, prev, ngen, engine>>

UnitRequest ==
    [impl |-> "unit", max_attempts |-> 1, max_results |-> 1, previous_response_id |-> None]

UnitInit ==
    /\ unit \in UnitInputs
    /\ req = UnitRequest
    /\ pc = "unit"
    /\ state = InitialState(req)
    /\ loc = InitialLocals(req)
    /\ result = None
    /\ raised = FALSE
    /\ calls = <<>>
    /\ prev = NoAttempt
    /\ ngen = 0
    /\ engine = <<>>
    /\ api = NoApi
    /\ twin = NoTwin

(* n result rows, each carrying its position *)
PromptRows(n) == [i \in 1..n |-> Row("row", IntV(ToString(i)))]

U_summarize ==
    /\ unit.fn = "input"
    /\ \E n \in 0..MaxPromptRows, pid \in {None, Some(""), Some(RespId("gen", 1))},
          out \in SumOutcomes(1) :
        unit' = [fn |-> "summarize", results |-> PromptRows(n),
                 previous_response_id |-> pid,
                 request |-> summarize_request(PromptRows(n), pid),
                 out |-> out,
                 raised |-> out.kind = "raise",
                 answer |-> IF out.kind = "raise" THEN None
                            ELSE Some(summarize(out).answer),
                 response_id |-> IF out.kind = "raise" THEN None
                                 ELSE summarize(out).response_id]
    /\ UNCHANGED <<api, twin, req, pc, state, loc, result, raised, calls, prev, ngen, engine>>

UnitNext ==
    \/ U_validate \/ U_execute \/ U_execute_again
    \/ U_serialize \/ U_serialize_again
    \/ U_summarize

UnitSpec == UnitInit /\ [][UnitNext]_vars

(* ============================== API layer ============================== *)
(* routes/ai_query.py.  get_agent is a plain function, so the framework    *)
(* runs it in a worker thread: its test of _agent_instance and its         *)
(* assignment are separate steps that other requests interleave with.      *)
(* natural_language_query and reset_conversation are coroutines without an *)
(* await around a blocking agent.query, so each runs on the event loop     *)
(* from its first statement to its return as one step.                     *)
ApiSlots == {"r1", "r2"}
ApiModels == {"gpt-5", "gpt-5-mini"}
ApiMaxResults == {10, 5}
ConversationIds == {"c1", "c2"}

(* Requests outside a conversation with every cap and model, and requests *)
(* of each conversation with the defaults of the request model.           *)
QueryRequests ==
    [kind : {"query"}, max_results : ApiMaxResults, model : ApiModels,
     conversation_id : {None}]
    \cup
    [kind : {"query"}, max_results : {10}, model : {"gpt-5"},
     conversation_id : {Some(c) : c \in ConversationIds}]
ResetRequest == [kind |-> "reset"]
ApiRequests == QueryRequests \cup {ResetRequest}

(* LangGraphMongoDBAgent(GPT5MongoDBAgent(...)) as get_agent constructs it. *)
NewAgent ==
    [model_name |-> "gpt-5", reasoning_effort |-> "medium", verbosity |-> "medium",
     max_results |-> 10, max_attempts |-> 3]

IdleSlot == [pc |-> "idle", request |-> [kind |-> "none"], n |-> 0, agent |-> None]

(* The record of the request answered last: the request and the agent it  *)
(* was handed, the configuration and identifier its invocation ran with,  *)
(* its answer, and what held when its handler ran.                        *)
NoneServed ==
    [request |-> [kind |-> "none"], agent |-> None, used |-> None,
     response |-> None,
     response_id |-> None,      \* the response_id of the result agent.query returned
     overlapped |-> FALSE,      \* another request was being served
     reconfigured |-> FALSE,    \* the handler changed the agent's cap or model
     after_reset |-> FALSE,     \* first query of its conversation since a reset
     unchanged |-> TRUE,        \* agents and conversation states were left as found
     last_ok |-> None,          \* response_id of the conversation's latest successful query
     stored |-> FALSE]          \* the handler stored an identifier
Served(slot) ==
    [NoneServed EXCEPT !.request = slot.request, !.agent = slot.agent]

(* States the graph of request number n can end in: answered after a     *)
(* successful run, or out of attempts after a failed one.                 *)
FinalStates(n) ==
    { [InitialState(UnitRequest) EXCEPT
         !.attempt = 1,
         !.pipeline = Some(<<Stage("$count"), LimitStage(10)>>),
         !.pipeline_response_id = Some(RespId("gen", n)),
         !.previous_response_id = Some(RespId("gen", n)),
         !.results = Some(<<>>),
         !.answer = Some(FallbackAnswer),
         !.response_id = Some(RespId("sum", n))],
      [InitialState(UnitRequest) EXCEPT
         !.attempt = 1,
         !.pipeline_response_id = Some(RespId("gen", n)),
         !.previous_response_id = Some(RespId("gen", n)),
         !.error = Some(ErrText("Query execution failed: operation failed", n)),
         !.previous_error = Some(ErrText("Query execution failed: operation failed", n))] }

(* What agent.query gives the handler: the result built from the final    *)
(* state (with the summary's identifier, or a failure result without      *)
(* one), or an exception.                                                 *)
QueryOutcomes(n) ==
    { [kind |-> "ok", success |-> graph_result(fs).success,
       response_id |-> graph_result(fs).response_id] : fs \in FinalStates(n) }
    \cup
    { [kind |-> "raise", success |-> FALSE, response_id |-> None] }

get_conversation_state(states, conversation_id) == states[conversation_id]
(* update_conversation_state that writes the identifier to every conversation *)
update_conversation_state_all(states, conversation_id, response_id) ==
    [c \in DOMAIN states |-> Some(response_id)]

update_conversation_state(states, conversation_id, response_id) ==
    [states EXCEPT ![conversation_id] = Some(response_id)]

(* the handler that leaves the executor's cap as it finds it *)
apply_request_config_keeps_cap(agent, request) ==
    [agent EXCEPT !.model_name = IF request.model # agent.model_name
                                    THEN request.model ELSE agent.model_name]

apply_request_config(agent, request) ==
    [agent EXCEPT !.max_results = IF request.max_results # agent.max_results
                                     THEN request.max_results ELSE agent.max_results,
                  !.model_name = IF request.model # agent.model_name
                                    THEN request.model ELSE agent.model_name]

(* natural_language_query on agent number a: what it leaves in the agent,  *)
(* in the conversation states, and what it answers.  used is the           *)
(* configuration and identifier the orchestrator invocation ran with.      *)
natural_language_query(agents, states, a, request, out) ==
    LET configured == [agents EXCEPT ![a] = apply_request_config(agents[a], request)]
        prev_response_id ==
            IF TruthyStr(request.conversation_id)
               THEN get_conversation_state(states, request.conversation_id[1])
               ELSE None
    IN  [agents |-> configured,
         used |-> [max_results |-> configured[a].max_results,
                   model |-> configured[a].model_name,
                   previous_response_id |-> prev_response_id],
         states |->
             IF out.kind = "ok" /\ TruthyStr(request.conversation_id)
                              /\ TruthyStr(out.response_id)
                THEN update_conversation_state(states, request.conversation_id[1],
                                               out.response_id[1])
                ELSE states,
         response |-> [status |-> 200, success |-> out.success]]

InFlight(slot) == slot.pc \in {"create", "handler"}

(* A request is received and get_agent, run for it, tests the global. *)
A_get_agent(s) ==
    /\ api.slots[s].pc = "idle"
    /\ api.started < MaxApiRequests
    /\ \E request \in ApiRequests :
        LET received == [IdleSlot EXCEPT !.request = request, !.n = api.started + 1]
        IN  api' = IF api.agent_instance # None
                      THEN [api EXCEPT !.started = @ + 1,
                                       !.slots[s] = [received EXCEPT
                                                       !.pc = "handler",
                                                       !.agent = api.agent_instance]]
                   ELSE IF ~api.openai_api_key
                      THEN [api EXCEPT !.started = @ + 1,
                                       !.last = [Served(received) EXCEPT
                                                   !.response = Some([status |-> 500,
                                                                      success |-> FALSE])]]
                   ELSE [api EXCEPT !.started = @ + 1,
                                    !.slots[s] = [received EXCEPT !.pc = "create"]]
    /\ UNCHANGED <<twin, unit, req, pc, state, loc, result, raised, calls, prev, ngen, engine>>

(* get_agent after it found the global unset: construct, assign, return. *)
A_create_agent(s) ==
    /\ api.slots[s].pc = "create"
    /\ api' = [api EXCEPT !.agents = Append(@, NewAgent),
                          !.agent_instance = Some(Len(api.agents) + 1),
                          !.slots[s].pc = "handler",
                          !.slots[s].agent = Some(Len(api.agents) + 1)]
    /\ UNCHANGED <<twin, unit, req, pc, state, loc, result, raised, calls, prev, ngen, engine>>

(* The handler.  api.last_ok keeps the response_id of the latest           *)
(* successful query of each conversation.                                  *)
A_query(s) ==
    /\ api.slots[s].pc = "handler"
    /\ api.slots[s].request.kind = "query"
    /\ \E out \in QueryOutcomes(api.slots[s].n) :
        LET request == api.slots[s].request
            h == natural_language_query(api.agents, api.conversation_states,
                                        api.slots[s].agent[1], request, out)
            cids == IF TruthyStr(request.conversation_id)
                       THEN {request.conversation_id[1]} ELSE {}
        IN  api' = [api EXCEPT
                      !.agents = h.agents,
                      !.conversation_states = h.states,
                      !.reset_since = @ \ cids,
                      !.last_ok =
                          IF cids # {} /\ out.kind = "ok" /\ out.success
                             THEN [@ EXCEPT ![request.conversation_id[1]] = out.response_id]
                          ELSE @,
                      !.slots[s] = IdleSlot,
                      !.last =
                          [Served(api.slots[s]) EXCEPT
                             !.used = Some(h.used),
                             !.response = Some(h.response),
                             !.response_id = out.response_id,
                             !.overlapped =
                                 (\E t \in ApiSlots \ {s} : InFlight(api.slots[t])),
                             !.reconfigured = (h.agents # api.agents),
                             !.after_reset = (cids \cap api.reset_since # {}),
                             !.last_ok = IF cids = {} THEN None
                                         ELSE api.last_ok[request.conversation_id[1]],
                             !.stored = (h.states # api.conversation_states)]]
    /\ UNCHANGED <<twin, unit, req, pc, state, loc, result, raised, calls, prev, ngen, engine>>

(* The route reset_conversation on agent number a.  The agent it is       *)
(* handed is the LangGraphMongoDBAgent, which defines no                   *)
(* reset_conversation: the call raises AttributeError before the route     *)
(* builds its answer, and the framework answers 500.                       *)
reset_conversation(agents, states, a) ==
    [raised |-> TRUE, agents |-> agents, states |-> states,
     response |-> [status |-> 500, success |-> FALSE]]

A_reset(s) ==
    /\ api.slots[s].pc = "handler"
    /\ api.slots[s].request.kind = "reset"
    /\ LET h == reset_conversation(api.agents, api.conversation_states,
                                   api.slots[s].agent[1])
       IN  api' = [api EXCEPT
                     !.agents = h.agents,
                     !.conversation_states = h.states,
                     !.reset_since = ConversationIds,
                     !.slots[s] = IdleSlot,
                     !.last =
                         [Served(api.slots[s]) EXCEPT
                            !.response = Some(h.response),
                            !.overlapped =
                                (\E t \in ApiSlots \ {s} : InFlight(api.slots[t])),
                            !.unchanged = (h.agents = api.agents
                                           /\ h.states = api.conversation_states)]]
    /\ UNCHANGED <<twin, unit, req, pc, state, loc, result, raised, calls, prev, ngen, engine>>

ApiInit ==
    /\ api \in [layer : {"api"}, openai_api_key : BOOLEAN, agent_instance : {None},
                agents : {<<>>},
                conversation_states : {[c \in ConversationIds |-> None]},
                slots : {[s \in ApiSlots |-> IdleSlot]},
                started : {0}, reset_since : {{}}, last : {NoneServed},
                last_ok : {[c \in ConversationIds |-> None]}]
    /\ req = UnitRequest
    /\ pc = "api"
    /\ state = InitialState(req)
    /\ loc = InitialLocals(req)
    /\ result = None
    /\ raised = FALSE
    /\ calls = <<>>
    /\ prev = NoAttempt
    /\ ngen = 0
    /\ engine = <<>>
    /\ unit = NoUnit
    /\ twin = NoTwin

ApiNext ==
    \E s \in ApiSlots :
        \/ A_get_agent(s)
        \/ A_create_agent(s)
        \/ A_query(s)
        \/ A_reset(s)

ApiSpec == ApiInit /\ [][ApiNext]_vars

(* ===================== the two orchestrators abreast ===================== *)
(* LangGraphMongoDBAgent.query and GPT5MongoDBAgent.query are given the    *)
(* same request and the same collaborator outcomes, none of them an        *)
(* exception.  state, pc, calls and result belong to the graph; loc and    *)
(* twin (position, calls of the current attempt, result) to the loop.      *)
TwinRequests ==
    [impl : {"both"}, max_attempts : 1..MaxAttempts,
     max_results : 1..MaxResultsBound, previous_response_id : {None, Some(CallerId)}]

InitialTwin == [pc |-> "for", calls |-> <<>>, result |-> None]

E_generate ==
    /\ req.impl = "both"
    /\ pc = "generate_pipeline" /\ state.attempt <= req.max_attempts
    /\ twin.pc = "for" /\ loc.attempt < req.max_attempts
    /\ \E g \in GenOutcomes(ngen + 1) :
        /\ state' = generate_pipeline_node(state, g)
        /\ calls' = <<GenCall(state.previous_error, state.previous_response_id, g)>>
        /\ pc' = Edge(after_generate(state'))
        /\ loc' = loop_generate(loc, g)
        /\ twin' = [pc |-> IF TruthyList(g.pipeline) THEN "validate" ELSE "for",
                    calls |-> <<GenCall(loc.previous_error, loc.prev_response_id, g)>>,
                    result |-> None]
    /\ prev' = Returned(calls)
    /\ ngen' = ngen + 1
    /\ engine' = <<>>
    /\ UNCHANGED <<api, unit, req, result, raised>>

E_run ==
    /\ req.impl = "both"
    /\ pc = "run_pipeline"
    /\ twin.pc = "validate"
    /\ \E dry \in EngineDryReplies(test_pipeline(state.pipeline[1]), ngen),
          exe \in ExecOutcomes(ngen) :
        LET r == run_pipeline_node(state, dry, exe, req.max_results)
            v == validate_aggregation_pipeline(loc.pipeline[1], dry)
            e == execute_pipeline(v.pipeline, req.max_results, exe)
        IN  /\ exe.kind = "ok" => EngineMayReturn(capped(state.pipeline[1], req.max_results),
                                                  exe.nrows)
            /\ ~v.raised /\ ~e.raised
            /\ state' = r.state
            /\ calls' = calls \o r.calls
            /\ engine' = engine \o r.engine
            /\ pc' = Edge(after_run(state'))
            /\ IF ~v.is_valid
                  THEN /\ loc' = loop_validate(loc, v)
                       /\ twin' = [twin EXCEPT !.pc = "for",
                                               !.calls = Append(@, ValCall(loc.pipeline[1], v))]
                  ELSE /\ loc' = loop_execute(loop_validate(loc, v), e)
                       /\ twin' = [twin EXCEPT
                                     !.pc = IF e.success /\ e.result # None
                                               THEN "summarize" ELSE "for",
                                     !.calls = @ \o <<ValCall(loc.pipeline[1], v),
                                                      ExeCall(v.pipeline, e)>>]
    /\ UNCHANGED <<api, unit, req, result, raised, prev, ngen>>

E_summarize ==
    /\ req.impl = "both"
    /\ pc = "summarize"
    /\ twin.pc = "summarize"
    /\ \E out \in SumOutcomes(ngen) :
        /\ out.kind # "raise"
        /\ calls' = Append(calls, SumCall(OrEmpty(state.pipeline), OrEmpty(state.results),
                                          state.pipeline_response_id, out))
        /\ state' = summarize_node(state, out)
        /\ pc' = "END"
        /\ twin' = [pc |-> "returned",
                    calls |-> Append(twin.calls,
                                     SumCall(loc.pipeline[1], loc.result[1],
                                             loc.pipeline_response_id, out)),
                    result |-> Some(Success(summarize(out).answer, loc.pipeline,
                                            loc.result[1], summarize(out).response_id))]
    /\ UNCHANGED <<api, unit, req, loc, result, raised, prev, ngen, engine>>

(* The graph reaches END and query builds its result; the loop, unless it  *)
(* has returned from inside the loop already, falls out of it.             *)
E_return ==
    /\ req.impl = "both"
    /\ pc = "END"
    /\ twin.pc = "returned" \/ (twin.pc = "for" /\ loc.attempt >= req.max_attempts)
    /\ result' = Some(graph_result(state))
    /\ pc' = "returned"
    /\ twin' = IF twin.pc = "for"
                  THEN [twin EXCEPT !.pc = "returned", !.result = Some(loop_exhausted(loc))]
               ELSE twin
    /\ UNCHANGED <<api, unit, req, state, loc, raised, calls, prev, ngen, engine>>

EqInit ==
    /\ req \in TwinRequests
    /\ pc = "generate_pipeline"
    /\ state = InitialState(req)
    /\ loc = InitialLocals(req)
    /\ twin = InitialTwin
    /\ result = None
    /\ raised = FALSE
    /\ calls = <<>>
    /\ prev = NoAttempt
    /\ ngen = 0
    /\ engine = <<>>
    /\ unit = NoUnit
    /\ api = NoApi

EqNext == E_generate \/ E_run \/ E_summarize \/ E_return

EqSpec == EqInit /\ [][EqNext]_vars

(* =============================== claims ================================ *)
Terminated == pc \in {"returned", "raised"}
Attempt == IF req.impl = "graph" THEN state.attempt ELSE loc.attempt
Last == calls[Len(calls)]
OkExecIdx == {j \in 1..Len(calls) : calls[j].op = "execute" /\ calls[j].success}
StructuralText == "Stage 1: 'count' is not a valid aggregation operator (must start with $)"

(* C1: within an attempt the executor is only ever called right after the  *)
(* validator returned is_valid = TRUE for the same pipeline; a pipeline    *)
(* that failed validation is never executed.                               *)
C1_ExecuteOnlyValidated ==
    \A j \in 1..Len(calls) :
        calls[j].op = "execute" =>
            /\ j > 1
            /\ calls[j - 1].op = "validate"
            /\ calls[j - 1].is_valid
            /\ calls[j - 1].pipeline = calls[j].pipeline

C1_Witness ==
    /\ ngen >= 2
    /\ prev.error = Some("Invalid pipeline: " \o ErrText("Unrecognized pipeline stage name", ngen - 1))
    /\ Last.op = "execute"

(* C2: the generator is called at most max_attempts times in one           *)
(* invocation, and the attempt counter equals the number of generator      *)
(* calls made so far, so it grows by one per call and never passes         *)
(* max_attempts.                                                           *)
C2_AttemptsBounded ==
    /\ ngen <= req.max_attempts
    /\ Attempt = ngen
    /\ Attempt <= req.max_attempts

C2_Witness ==
    /\ Terminated
    /\ req.max_attempts >= 3
    /\ ngen = req.max_attempts
    /\ prev.error = Some("Invalid pipeline: " \o ErrText("Unrecognized pipeline stage name", ngen - 1))
    /\ Last.op = "execute" /\ ~Last.success

(* C3: every invocation whose outbound calls all return ends with a        *)
(* result: it eventually returns, unless a call raised instead of          *)
(* returning.                                                              *)
C3_Terminates == <>(result # None \/ raised)

C3_Witness ==
    /\ result # None /\ ~result[1].success
    /\ req.max_attempts >= 2
    /\ ngen = req.max_attempts

(* C4: the first generator call is passed no error; every later one is     *)
(* passed exactly the error returned by the last call of the attempt       *)
(* before, which is that attempt's failing phase (generation, validation   *)
(* or execution).                                                          *)
C4_ErrorFedBack ==
    calls # <<>> =>
        /\ calls[1].op = "generate"
        /\ calls[1].previous_error = prev.error
        /\ ngen = 1 => calls[1].previous_error = None

C4_Witness ==
    /\ ngen >= 2
    /\ prev.error = Some("Invalid pipeline: " \o ErrText("Unrecognized pipeline stage name", ngen - 1))
    /\ calls[1].previous_error = prev.error

(* C5: the first generator call receives the caller's continuity           *)
(* identifier; every later one receives the identifier returned by the     *)
(* generator call of the attempt before.                                   *)
C5_ContinuityChained ==
    calls # <<>> =>
        calls[1].previous_response_id =
            IF ngen = 1 THEN req.previous_response_id ELSE prev.response_id

C5_Witness ==
    /\ req.previous_response_id = Some(CallerId)
    /\ ngen >= 3
    /\ calls[1].previous_response_id = Some(RespId("gen", ngen - 1))

(* C6: if generation, validation and execution all succeed in attempt k,   *)
(* the invocation ends in that attempt with success = TRUE, after exactly  *)
(* k generator calls, with the pipeline executed and the rows obtained in  *)
(* attempt k.                                                              *)
C6_SucceedsAtFirstGoodAttempt ==
    \A j \in OkExecIdx :
        Terminated =>
            /\ result # None
            /\ result[1].success
            /\ Attempt = ngen
            /\ result[1].pipeline = Some(calls[j].executed)
            /\ result[1].results = calls[j].result

(* C7: when every attempt is used up without a successful execution, the   *)
(* result has success = FALSE, a non-null error, a null pipeline and null  *)
(* rows.                                                                   *)
C7_ExhaustedResultShape ==
    (result # None /\ OkExecIdx = {} /\ ngen = req.max_attempts) =>
        /\ ~result[1].success
        /\ result[1].error # None
        /\ result[1].pipeline = None
        /\ result[1].results = None

(* C8: when attempts are used up, the reported error is the error string   *)
(* of the final attempt's failing phase (the generic text when that phase  *)
(* gave none); when the attempts produced structurally invalid pipelines   *)
(* it is the last structural validation error.                             *)
C8_LastErrorReported ==
    (result # None /\ OkExecIdx = {}) =>
        /\ result[1].error = Some(OrElse(Last.error, FallbackError))
        /\ (Last.op = "validate" /\ structural_error(Last.pipeline, 1) # None) =>
              result[1].error = structural_error(Last.pipeline, 1)

C8_Witness ==
    /\ result # None
    /\ req.max_attempts >= 2
    /\ ngen = req.max_attempts
    /\ prev.error = Some("Stage 0 must have exactly one operator")
    /\ Last.op = "validate" /\ structural_error(Last.pipeline, 1) # None
    /\ result[1].error = Some(StructuralText)

(* C9: in a returned result, success = TRUE comes with a non-null answer,  *)
(* rows and pipeline and a null error; success = FALSE comes with a null   *)
(* answer and null rows.                                                   *)
C9_ResultConsistent ==
    result # None =>
        /\ result[1].success =>
              /\ result[1].answer # None
              /\ result[1].results # None
              /\ result[1].pipeline # None
              /\ result[1].error = None
        /\ ~result[1].success =>
              /\ result[1].answer = None
              /\ result[1].results = None

C9_Witness ==
    /\ result # None /\ result[1].success
    /\ Attempt = req.max_attempts
    /\ Len(result[1].results[1]) > 0

(* C10: once the real execution has succeeded, the invocation ends with    *)
(* success = TRUE, those rows and some answer text, whatever the           *)
(* summarization call does.                                                *)
C10_SummaryNeverFails ==
    (Terminated /\ Last.op = "summarize") =>
        /\ ~raised
        /\ result # None
        /\ result[1].success
        /\ result[1].results = Some(Last.results)
        /\ TruthyStr(result[1].answer)

(* C11: query never raises to its caller: whenever a collaborator call     *)
(* raised, the invocation still ends with a returned result that has       *)
(* success = FALSE and an error string.                                    *)
C11_QueryNeverRaises ==
    /\ ~raised
    /\ \A j \in 1..Len(calls) :
          (calls[j].op = "summarize" /\ calls[j].raised /\ Terminated) =>
              /\ result # None
              /\ ~result[1].success
              /\ result[1].error # None

(* C12: a dry-run that the engine aborted for exceeding the dry-run time   *)
(* budget makes validate return (TRUE, None), and the orchestrator goes on *)
(* to the real execution of that pipeline within the same attempt: no      *)
(* retry, no further generator call.                                       *)
C12_TimeoutDryRunIsValid ==
    \A j \in 1..Len(engine) :
        (engine[j].maxTimeMS = 1000 /\ engine[j].timeout) =>
            /\ Attempt = ngen
            /\ \E i \in 2..Len(calls) :
                  /\ calls[i].op = "validate"
                  /\ calls[i].is_valid
                  /\ calls[i].error = None
                  /\ \/ pc = "execute" /\ i = Len(calls)
                     \/ /\ i < Len(calls)
                        /\ calls[i + 1].op = "execute"
                        /\ calls[i + 1].pipeline = calls[i].pipeline

C12_Witness ==
    /\ ngen >= 2
    /\ Len(engine) = 2
    /\ engine[1].maxTimeMS = 1000 /\ engine[1].timeout /\ engine[1].reply = "OperationFailure"
    /\ engine[2].maxTimeMS = 30000 /\ engine[2].reply = "ok"
    /\ Last.op = "execute" /\ Last.success

(* The structural rule: a non-empty list whose stages are one-key mappings *)
(* with a key that starts with the stage sigil.                            *)
StructurallyOk(value) ==
    /\ value.t = "list"
    /\ Len(value.stages) > 0
    /\ \A i \in 1..Len(value.stages) :
          /\ value.stages[i].dict
          /\ Len(value.stages[i].keys) = 1
          /\ StartsWithDollar(value.stages[i].keys[1])

(* C13: validate returns is_valid = TRUE only for a pipeline that passes   *)
(* every structural check and whose dry-run completed or was aborted for   *)
(* exceeding the time budget; TRUE comes with a null error, FALSE with a   *)
(* non-empty error string.                                                 *)
C13_ValidMeansCheckedAndDryRun ==
    unit.fn = "validate" =>
        /\ unit.out.is_valid =>
              /\ StructurallyOk(unit.value)
              /\ unit.out.engine # <<>>
              /\ unit.dry.kind = "ok" \/ unit.dry.timeout
              /\ unit.out.error = None
        /\ ~unit.out.is_valid => TruthyStr(unit.out.error)

(* C14: when the dry-run of a structurally valid pipeline fails with an    *)
(* operational failure that is not a time-budget overrun, validate returns *)
(* is_valid = FALSE and an error that carries the engine's message.        *)
C14_EngineFailureIsInvalid ==
    (/\ unit.fn = "validate"
     /\ StructurallyOk(unit.value)
     /\ unit.dry.kind = "OperationFailure"
     /\ ~unit.dry.timeout) =>
        /\ ~unit.out.is_valid
        /\ unit.out.error = Some("Invalid pipeline: " \o unit.dry.text)

StageOk(stage) ==
    stage.dict /\ Len(stage.keys) = 1 /\ StartsWithDollar(stage.keys[1])

(* Position (from 1) of the first stage that breaks the structural rule. *)
FirstBad(stages) ==
    CHOOSE i \in 1..Len(stages) :
        ~StageOk(stages[i]) /\ \A j \in 1..(i - 1) : StageOk(stages[j])

(* The messages that name stage idx (counted from 0, as the code counts). *)
StageErrors(idx, stage) ==
    { Some("Stage " \o ToString(idx) \o " must be a dictionary"),
      Some("Stage " \o ToString(idx) \o " must have exactly one operator") }
    \cup
    { Some("Stage " \o ToString(idx) \o ": '" \o stage.keys[j]
           \o "' is not a valid aggregation operator (must start with $)") :
        j \in 1..Len(stage.keys) }

(* C15: validate rejects every value that is not a list, is empty, or has  *)
(* a stage that is not a one-key mapping with a '$' key; it does so        *)
(* without an aggregate call to the engine, and the error names the first  *)
(* offending stage in pipeline order.                                      *)
C15_StructuralRejection ==
    (unit.fn = "validate" /\ ~StructurallyOk(unit.value)) =>
        /\ ~unit.out.is_valid
        /\ unit.out.engine = <<>>
        /\ unit.value.t # "list" =>
              unit.out.error = Some("Pipeline must be a list of stages")
        /\ (unit.value.t = "list" /\ Len(unit.value.stages) = 0) =>
              unit.out.error = Some("Pipeline cannot be empty")
        /\ (unit.value.t = "list" /\ Len(unit.value.stages) > 0) =>
              LET k == FirstBad(unit.value.stages)
              IN  unit.out.error \in StageErrors(k - 1, unit.value.stages[k])

C15_Witness ==
    /\ unit.fn = "validate"
    /\ unit.value = PyList(<<Stage("$match"), TwoKeyStage, NotADictStage>>)
    /\ unit.out.error = Some("Stage 1 must have exactly one operator")
    /\ unit.out.engine = <<>>

(* C16: the dry-run of validate never persists state in the engine: no     *)
(* aggregate call it makes writes a collection, whatever stages the        *)
(* pipeline has, and every such call runs with disk spill disabled.        *)
C16_DryRunNeverWrites ==
    unit.fn = "validate" =>
        \A j \in 1..Len(unit.out.engine) :
            /\ ~EngineWrites(unit.out.engine[j])
            /\ unit.out.engine[j].allowDiskUse = "False"

NumLimits(pipeline) ==
    Cardinality({i \in 1..Len(pipeline) : HasKey(pipeline[i], "$limit")})

(* C17: execute_aggregation sends the original stages followed by exactly  *)
(* one {$limit: max_results} when the pipeline has no $limit stage, and    *)
(* the stages unchanged when it has one; executing the same list again     *)
(* adds no second cap.                                                     *)
C17_CapAppendedOnce ==
    unit.fn = "execute" =>
        LET sent == unit.out.engine[1].pipeline
        IN  /\ NumLimits(unit.pipeline) = 0 =>
                  /\ sent = unit.pipeline \o <<LimitStage(unit.max_results)>>
                  /\ NumLimits(sent) = 1
            /\ NumLimits(unit.pipeline) > 0 => sent = unit.pipeline
            /\ unit.out.pipeline = sent
            /\ unit.times = 2 => sent = unit.pipeline

C17_Witness ==
    /\ unit.fn = "execute"
    /\ unit.times = 2
    /\ unit.max_results = MaxResultsBound
    /\ unit.pipeline = <<Stage("$count"), LimitStage(MaxResultsBound)>>
    /\ unit.out.engine[1].pipeline = unit.pipeline
    /\ unit.out.success

(* C18: every successful result has at most max_results rows, whatever     *)
(* pipeline the generator produced, with or without a $limit of its own.   *)
C18_RowsWithinMaxResults ==
    (result # None /\ result[1].success) =>
        /\ result[1].result_count[1] <= req.max_results
        /\ Len(result[1].results[1]) <= req.max_results

(* C19: validate and execute never raise: every engine failure and every   *)
(* unexpected exception inside them comes back as a failure with an error  *)
(* string, after which control is back in the retry loop; an exception     *)
(* leaves query only from the summarization call.                          *)
C19_PhasesNeverRaise ==
    /\ raised => Last.op = "summarize"
    /\ \A j \in 1..Len(calls) :
          /\ calls[j].op = "validate" =>
                /\ ~calls[j].raised
                /\ ~calls[j].is_valid => TruthyStr(calls[j].error)
          /\ calls[j].op = "execute" =>
                /\ ~calls[j].raised
                /\ ~calls[j].success => TruthyStr(calls[j].error) /\ calls[j].result = None
    /\ (/\ engine # <<>>
        /\ engine[Len(engine)].reply # "ok"
        /\ ~engine[Len(engine)].timeout) =>
          /\ Last.op \in {"validate", "execute"}
          /\ TruthyStr(Last.error)
          /\ pc \in {"generate_pipeline", "for", "END", "returned"}

C19_Witness ==
    /\ ngen >= 2
    /\ prev.error = Some("Unexpected error during execution: " \o ErrText("unexpected", ngen - 1))
    /\ calls[1].previous_error = prev.error
    /\ Last.op = "validate"
    /\ Last.error = Some("Validation error: " \o ErrText("connection refused", ngen))
    /\ engine[Len(engine)].reply = "ConnectionFailure"

(* No identifier, timestamp or special float at any depth of the value. *)
RECURSIVE JsonSafe(_)
JsonSafe(value) ==
    IF value.t \in {"ObjectId", "datetime"} THEN FALSE
    ELSE IF value.t = "float" THEN value.v \notin {"nan", "inf", "-inf"}
    ELSE IF value.t = "dict" THEN JsonSafe(value.val)
    ELSE IF value.t = "list" THEN \A i \in 1..Len(value.items) : JsonSafe(value.items[i])
    ELSE TRUE

(* out is what the value in is required to become. *)
RECURSIVE Converted(_, _)
Converted(in, out) ==
    IF in.t \in {"ObjectId", "datetime"} THEN out = StrV(in.v)
    ELSE IF in.t = "float" /\ in.v = "nan" THEN out = NullV
    ELSE IF in.t = "float" /\ in.v = "inf" THEN out = StrV("Infinity")
    ELSE IF in.t = "float" /\ in.v = "-inf" THEN out = StrV("-Infinity")
    ELSE IF in.t = "dict" THEN
        /\ out.t = "dict"
        /\ out.key = in.key
        /\ Converted(in.val, out.val)
    ELSE IF in.t = "list" THEN
        /\ out.t = "list"
        /\ Len(out.items) = Len(in.items)
        /\ \A i \in 1..Len(in.items) : Converted(in.items[i], out.items[i])
    ELSE out = in

(* C20: in serialized rows no ObjectId, datetime, NaN or infinite float is *)
(* left at any depth of mappings and lists: identifiers and timestamps     *)
(* become strings, NaN becomes null, infinities become 'Infinity' and      *)
(* '-Infinity', and every other value is unchanged.                        *)
C20_RowsAreJsonSafe ==
    unit.fn = "serialize" =>
        /\ Len(unit.out) = Len(unit.rows)
        /\ \A i \in 1..Len(unit.rows) :
              /\ JsonSafe(unit.out[i])
              /\ Converted(unit.rows[i], unit.out[i])

C20_Witness ==
    /\ unit.fn = "serialize"
    /\ Len(unit.rows) = 1
    /\ unit.rows[1].key = "vals"
    /\ unit.out[1].val.items[1] = NullV
    /\ unit.out[1].val.items[2] = StrV("Infinity")
    /\ unit.out[1].val.items[4] = Row("id", StrV("65a2"))

(* C21: serialization is idempotent: the serializer applied to the rows it *)
(* returned gives those rows back unchanged, for rows with identifiers,    *)
(* timestamps, floats (NaN and infinities included), strings, nulls and    *)
(* nested mappings and lists.                                              *)
C21_SerializeIdempotent ==
    (unit.fn = "serialize" /\ unit.times = 2) => unit.out = unit.rows

C21_Witness ==
    /\ unit.fn = "serialize"
    /\ unit.times = 2
    /\ Len(unit.rows) = 1
    /\ unit.rows[1].key = "vals"
    /\ unit.out[1].val.items[1] = NullV
    /\ unit.out[1].val.items[3] = StrV("-Infinity")

(* A value JSON can carry: a string, null, number or finite float, or a    *)
(* mapping or list of such values.                                         *)
RECURSIVE JsonValue(_)
JsonValue(value) ==
    IF value.t \in {"str", "NoneType", "int"} THEN TRUE
    ELSE IF value.t = "float" THEN value.v \notin {"nan", "inf", "-inf"}
    ELSE IF value.t = "dict" THEN JsonValue(value.val)
    ELSE IF value.t = "list" THEN \A i \in 1..Len(value.items) : JsonValue(value.items[i])
    ELSE FALSE

(* C22: high-precision numeric values are covered by the serialization     *)
(* contract: every value of the serialized rows, high-precision numbers    *)
(* included, is JSON-safe.                                                 *)
C22_HighPrecisionSerialized ==
    unit.fn = "serialize" =>
        \A i \in 1..Len(unit.out) : JsonValue(unit.out[i])

(* C23: the summarization call chains to the continuity identifier         *)
(* returned by the generation call of the same attempt, the one that       *)
(* produced the executed pipeline and the last generation call of the      *)
(* invocation; it chains neither to the caller-supplied identifier nor to  *)
(* the identifier of an earlier attempt.                                   *)
C23_SummaryChainsToGeneration ==
    \A j \in 1..Len(calls) :
        calls[j].op = "summarize" =>
            /\ calls[1].op = "generate"
            /\ j > 1
            /\ calls[j - 1].op = "execute"
            /\ calls[1].pipeline = Some(calls[j - 1].pipeline)
            /\ calls[j].previous_response_id = calls[1].response_id
            /\ calls[j].previous_response_id = Some(RespId("gen", ngen))
            /\ calls[j].previous_response_id # req.previous_response_id
            /\ calls[j].previous_response_id # prev.response_id

C23_Witness ==
    /\ Len(calls) > 0
    /\ Last.op = "summarize"
    /\ ngen >= 2
    /\ req.previous_response_id = Some(CallerId)
    /\ prev.response_id = Some(RespId("gen", ngen - 1))
    /\ Last.previous_response_id = Some(RespId("gen", ngen))

(* C24: summarize embeds in its completion request exactly the first       *)
(* min(20, n) of the n result rows, in their original order, and its       *)
(* prompt states both the number of rows shown and the true total n.       *)
C24_PromptRowsTruncated ==
    unit.fn = "summarize" =>
        LET n == Len(unit.results)
            m == IF n < 20 THEN n ELSE 20
        IN  /\ Len(unit.request.limited_results) = m
            /\ \A i \in 1..m : unit.request.limited_results[i] = unit.results[i]
            /\ unit.request.shown = m
            /\ unit.request.total = n

C24_Witness ==
    /\ unit.fn = "summarize"
    /\ Len(unit.results) = 21
    /\ unit.request.shown = 20
    /\ unit.request.total = 21
    /\ unit.request.limited_results[20] = Row("row", IntV("20"))

(* C25: summarize always returns some non-empty answer text: it never      *)
(* raises, and when the completion service's response has missing or       *)
(* empty output text it returns the fixed fallback acknowledgment string,  *)
(* together with the response's continuity identifier.                     *)
C25_SummarizeAlwaysAnswers ==
    unit.fn = "summarize" =>
        /\ ~unit.raised
        /\ TruthyStr(unit.answer)
        /\ unit.response_id = Some(unit.out.id)
        /\ ~TruthyStr(unit.out.output_text) => unit.answer = Some(FallbackAnswer)

C27_ResetIsNoOp ==
    api.layer = "api" =>
        ((api.last.request.kind = "reset" /\ api.last.agent # None) =>
            /\ api.last.response = Some([status |-> 200, success |-> TRUE])
            /\ api.last.unchanged)

(* C28: the API reset operation clears the chain-of-thought history: after *)
(* a reset, the next query of any conversation is issued with no previous  *)
(* continuity identifier.                                                  *)
C28_ResetClearsHistory ==
    api.layer = "api" =>
        ((api.last.used # None /\ api.last.after_reset) =>
            api.last.used[1].previous_response_id = None)

(* C29: the agent is created once and reused: for any interleaving of      *)
(* concurrent first requests through get_agent at most one agent instance  *)
(* is ever constructed and every request is served by that same instance.  *)
C29_AgentCreatedOnce ==
    api.layer = "api" =>
        /\ Len(api.agents) <= 1
        /\ api.last.agent # None => api.last.agent = api.agent_instance
        /\ \A s \in ApiSlots :
            api.slots[s].agent # None => api.slots[s].agent = api.agent_instance

(* The graph and the loop stand at the same point of an invocation. *)
Abreast ==
    \/ pc = "generate_pipeline" /\ twin.pc = "for" /\ loc.attempt < req.max_attempts
    \/ pc = "run_pipeline" /\ twin.pc = "validate"
    \/ pc = "summarize" /\ twin.pc = "summarize"
    \/ pc = "END" /\ twin.pc = "returned"
    \/ pc = "END" /\ twin.pc = "for" /\ loc.attempt >= req.max_attempts
    \/ pc = "returned" /\ twin.pc = "returned"

(* C30: the graph orchestrator and the loop orchestrator are equivalent:   *)
(* with the same max_attempts and the same collaborator outcomes, none of  *)
(* them an exception, they make the same generator, validator, executor    *)
(* and summarizer calls with the same arguments and return results equal   *)
(* in success, answer, pipeline, results, error and response_id.           *)
C30_OrchestratorsEquivalent ==
    req.impl = "both" =>
        /\ Abreast
        /\ calls = twin.calls
        /\ pc = "returned" =>
            /\ result[1].success = twin.result[1].success
            /\ result[1].answer = twin.result[1].answer
            /\ result[1].pipeline = twin.result[1].pipeline
            /\ result[1].results = twin.result[1].results
            /\ result[1].error = twin.result[1].error
            /\ result[1].response_id = twin.result[1].response_id

(* C31: the summarizer is called at most once per invocation, only right   *)
(* after a successful real execution and with that attempt's pipeline and  *)
(* rows, and no generator, validator or executor call follows it: the      *)
(* summarizer call is the last call made and the invocation is then at its *)
(* end.                                                                    *)
C31_SummarizeOnceAtTheEnd ==
    \A j \in 1..Len(calls) :
        calls[j].op = "summarize" =>
            /\ j = Len(calls)
            /\ j > 1
            /\ calls[j - 1].op = "execute"
            /\ calls[j - 1].success
            /\ calls[j].pipeline = calls[j - 1].executed
            /\ Some(calls[j].results) = calls[j - 1].result
            /\ pc \in {"END", "returned", "raised"}

C31_Witness ==
    /\ Terminated
    /\ ngen >= 2
    /\ Len(calls) = 4
    /\ Last.op = "summarize"
    /\ Len(Last.results) > 0
    /\ Len(Last.pipeline) > Len(calls[1].pipeline[1])

(* C32: every pipeline submitted to the query engine, by the dry-run or by *)
(* the real execution, contains at least one top-level $limit stage: when  *)
(* the generated pipeline has none, the dry-run submits it followed by     *)
(* {$limit: 1} and the executor submits it followed by                     *)
(* {$limit: max_results}; when it has one, both submit it as it is.        *)
C32_EveryAggregateIsLimited ==
    \A j \in 1..Len(engine) :
        LET sent == engine[j].pipeline
            generated == calls[1].pipeline[1]
            cap == IF engine[j].maxTimeMS = 1000 THEN 1 ELSE req.max_results
        IN  /\ NumLimits(sent) >= 1
            /\ NumLimits(generated) = 0 => sent = generated \o <<LimitStage(cap)>>
            /\ NumLimits(generated) > 0 => sent = generated

C32_Witness ==
    /\ Len(engine) = 2
    /\ req.max_results = MaxResultsBound
    /\ NumLimits(calls[1].pipeline[1]) = 0
    /\ engine[1].pipeline = calls[1].pipeline[1] \o <<LimitStage(1)>>
    /\ engine[2].pipeline = calls[1].pipeline[1] \o <<LimitStage(MaxResultsBound)>>

(* C33: across any sequence of API queries, the previous continuity        *)
(* identifier handed to the orchestrator for a request with                *)
(* conversation_id c is the response_id of the most recent earlier         *)
(* successful query with the same c (none if there is none), whatever the  *)
(* queries of other conversations did; a request without conversation_id   *)
(* is handed none and stores none.                                         *)
C33_ContinuityPerConversation ==
    api.layer = "api" =>
        /\ api.conversation_states = api.last_ok
        /\ api.last.used # None =>
            IF TruthyStr(api.last.request.conversation_id)
               THEN api.last.used[1].previous_response_id = api.last.last_ok
            ELSE /\ api.last.used[1].previous_response_id = None
                 /\ ~api.last.stored

(* A query of c1 is handed the identifier of the first query although a    *)
(* query of c2 has stored a later one in between.                          *)
C33_Witness ==
    /\ api.layer = "api"
    /\ api.last.request.kind = "query"
    /\ api.last.request.conversation_id = Some("c1")
    /\ api.last.used # None
    /\ api.last.used[1].previous_response_id = Some(RespId("sum", 1))
    /\ api.conversation_states["c2"] = Some(RespId("sum", 2))

(* C34: continuity is never lost inside an invocation: once the caller has *)
(* supplied a continuity identifier or a generation call has returned one, *)
(* every later generation call and the summarization call chain to a       *)
(* non-null identifier, even after a generation attempt that returned no   *)
(* identifier.                                                             *)
C34_ContinuityNeverLost ==
    (req.impl \in {"graph", "loop"}
        /\ (req.previous_response_id # None \/ prev.response_id # None)) =>
        \A j \in 1..Len(calls) :
            calls[j].op \in {"generate", "summarize"} =>
                calls[j].previous_response_id # None

(* C35: a query that ends in failure returns no continuity identifier, and *)
(* the API layer then leaves the conversation's stored continuity          *)
(* identifier unchanged, so that the next turn of the conversation chains  *)
(* to the last successful turn.                                            *)
C35_FailureKeepsStoredId ==
    (api.layer = "api" /\ api.last.used # None /\ ~api.last.response[1].success) =>
        /\ api.last.response_id = None
        /\ ~api.last.stored
        /\ TruthyStr(api.last.request.conversation_id) =>
            /\ api.conversation_states[api.last.request.conversation_id[1]]
                   = api.last.used[1].previous_response_id
            /\ api.conversation_states[api.last.request.conversation_id[1]]
                   = api.last.last_ok

(* A turn of c1 fails after an earlier turn of c1 succeeded. *)
C35_Witness ==
    /\ api.layer = "api"
    /\ api.last.used # None
    /\ ~api.last.response[1].success
    /\ api.last.request.conversation_id = Some("c1")
    /\ api.last.last_ok = Some(RespId("sum", 1))
    /\ api.conversation_states["c1"] = Some(RespId("sum", 1))
    /\ api.started = MaxApiRequests

(* C36: the pipeline reported in a successful result is exactly the stage  *)
(* sequence that was submitted to the engine for the real execution,       *)
(* including the $limit stage the executor appended in place when the      *)
(* generated pipeline had none.                                            *)
C36_ReportedPipelineIsExecuted ==
    (result # None /\ result[1].success) =>
        /\ Len(engine) > 0
        /\ engine[Len(engine)].maxTimeMS = 30000
        /\ engine[Len(engine)].reply = "ok"
        /\ result[1].pipeline = Some(engine[Len(engine)].pipeline)
        /\ NumLimits(calls[1].pipeline[1]) = 0 =>
              result[1].pipeline
                  = Some(calls[1].pipeline[1] \o <<LimitStage(req.max_results)>>)

C36_Witness ==
    /\ result # None /\ result[1].success
    /\ req.max_results = MaxResultsBound
    /\ calls[1].pipeline = Some(<<Stage("$count")>>)
    /\ result[1].pipeline = Some(<<Stage("$count"), LimitStage(MaxResultsBound)>>)
    /\ engine[Len(engine)].pipeline = <<Stage("$count"), LimitStage(MaxResultsBound)>>

(* C37: validate leaves the pipeline it is given unchanged: the dry-run    *)
(* cap {$limit: 1} is appended to a copy, so the pipeline later executed   *)
(* and reported never contains a stage added by validation.                *)
C37_ValidationLeavesPipeline ==
    /\ \A j \in 1..Len(calls) :
          /\ calls[j].op = "validate" =>
                /\ calls[j].pipeline_after = calls[j].pipeline
                /\ calls[j].pipeline = calls[1].pipeline[1]
          /\ calls[j].op = "execute" =>
                /\ calls[j].pipeline = calls[1].pipeline[1]
                /\ calls[j].executed = capped(calls[1].pipeline[1], req.max_results)
    /\ (result # None /\ result[1].success) =>
          result[1].pipeline = Some(capped(calls[1].pipeline[1], req.max_results))

C37_Witness ==
    /\ result # None /\ result[1].success
    /\ req.max_results = MaxResultsBound
    /\ calls[1].pipeline = Some(<<Stage("$count")>>)
    /\ Len(engine) = 2
    /\ engine[1].pipeline = <<Stage("$count"), LimitStage(1)>>
    /\ engine[2].pipeline = <<Stage("$count"), LimitStage(MaxResultsBound)>>
    /\ result[1].pipeline = Some(engine[2].pipeline)

(* C38: a real execution that succeeds with zero rows is a success, not a  *)
(* failure: the invocation goes on to the summary with the empty row list, *)
(* no further generation attempt is made, and query returns success = true *)
(* with an empty row list and result_count = 0.                            *)
C38_ZeroRowsIsSuccess ==
    \A j \in 1..Len(calls) :
        (/\ calls[j].op = "execute"
         /\ calls[j].success
         /\ calls[j].result = Some(<<>>)) =>
            /\ pc \in {"summarize", "END", "returned", "raised"}
            /\ j < Len(calls) =>
                  /\ Len(calls) = j + 1
                  /\ calls[j + 1].op = "summarize"
                  /\ calls[j + 1].results = <<>>
            /\ Terminated =>
                  /\ result # None
                  /\ result[1].success
                  /\ result[1].results = Some(<<>>)
                  /\ result[1].result_count = Some(0)

====
